---------------------------- MODULE Spec2Model ----------------------------
(***************************************************************************)
(* A model of taos-query/src/tmq/mod.rs: the Timeout value type, the       *)
(* MessageSet container, the pull iterator / data-only filter / push       *)
(* stream built on the consumer contracts, and the blanket bridging        *)
(* implementations between the blocking and the suspendable contracts.     *)
(*                                                                         *)
(* Four specifications share the module:                                   *)
(*   SpecTimeout     constructors and conversions of Timeout               *)
(*   SpecMessageSet  construction and accessors of MessageSet              *)
(*   Spec            iter / iter_with_timeout / iter_data_only / stream /  *)
(*                   stream_with_timeout / recv over an arbitrary backend  *)
(*   SpecAdapter     the SyncOnAsync and AsyncOnSync blanket impls         *)
(* Each specification leaves the variables of the others at their idle     *)
(* value.                                                                  *)
(***************************************************************************)
EXTENDS Integers, Sequences, FiniteSets

VARIABLES
    tmo,          \* SpecTimeout: the Timeout value under test
    raw,          \* SpecTimeout: result of as_raw_timeout, if called
    dur,          \* SpecTimeout: result of as_duration, if called
    built,        \* SpecMessageSet: the MessageSet as it was constructed
    ms,           \* SpecMessageSet: the live value (Moved after into_*)
    res,          \* SpecMessageSet: the last accessor call and its result
    override,     \* Spec: the backend's default_timeout override, if any
    adapter,      \* Spec: the iterator / stream object that was built
    recvLog,      \* Spec: every recv_timeout the consumer served
    out,          \* Spec: what each next / poll_next / recv returned
    streamState,  \* Spec: state of the unfold stream
    marker,       \* SpecAdapter: the marker trait the type opted into
    backendLog,   \* SpecAdapter: calls that reached the implemented contract
    callerLog     \* SpecAdapter: calls issued on the derived contract

tvars == <<tmo, raw, dur>>
mvars == <<built, ms, res>>
ivars == <<override, adapter, recvLog, out, streamState>>
avars == <<marker, backendLog, callerLog>>
vars  == <<tmo, raw, dur, built, ms, res, override, adapter, recvLog, out,
           streamState, marker, backendLog, callerLog>>

(***************************************************************************)
(* Option and RawResult values.                                            *)
(***************************************************************************)
None == [tag |-> "None"]
Some(x) == [tag |-> "Some", v |-> x]
Ok(x) == [tag |-> "Ok", v |-> x]
Err(e) == [tag |-> "Err", e |-> e]
Unset == [tag |-> "Unset"]

\* Option<Result<T>> from Result<Option<T>> (Result::transpose).
transpose(r) ==
    IF r.tag = "Err" THEN Some(Err(r.e))
    ELSE IF r.v.tag = "None" THEN None
    ELSE Some(Ok(r.v.v))

(***************************************************************************)
(* Timeout.  The raw integer is i64 and the constructor arguments are u64  *)
(* in the source; the model keeps two's-complement arithmetic at a scaled  *)
(* width of RawBits bits.  A Duration is a count of ticks, TicksPerMilli   *)
(* of them to the millisecond (nanoseconds in the source).                 *)
(***************************************************************************)
RawBits == 12
TicksPerMilli == 2
MaxSecs == 4
MillisPerSec == 1000


RECURSIVE Pow2(_)
Pow2(n) == IF n = 0 THEN 1 ELSE 2 * Pow2(n - 1)

I64Max == Pow2(RawBits - 1) - 1
U64Max == Pow2(RawBits) - 1

Never == [tag |-> "Never"]
NoWait == [tag |-> "Timeout::None"]
Duration(d) == [tag |-> "Duration", d |-> d]

\* std Duration::from_secs / from_millis / as_millis, in ticks.
Duration_from_secs(secs) == secs * MillisPerSec * TicksPerMilli
Duration_from_millis(millis) == millis * TicksPerMilli
Duration_as_millis(d) == d \div TicksPerMilli

\* `x as i64` for an unsigned x: the low RawBits bits, read as two's complement.
CastI64(x) ==
    LET low == x % Pow2(RawBits)
    IN IF low > I64Max THEN low - Pow2(RawBits) ELSE low

from_secs(secs) == Duration(Duration_from_secs(secs))
from_millis(millis) == Duration(Duration_from_millis(millis))
never == Never
none == NoWait

as_raw_timeout(t) ==
    CASE t.tag = "Never" -> 0 - 1
      [] t.tag = "Timeout::None" -> 0
      [] t.tag = "Duration" -> CastI64(Duration_as_millis(t.d))

as_duration(t) ==
    CASE t.tag = "Never" -> Duration_from_secs(I64Max \div MillisPerSec)
      [] t.tag = "Timeout::None" -> Duration_from_secs(0)
      [] t.tag = "Duration" -> t.d

\* Durations a caller can hold: whole seconds plus a sub-second part.
MaxTicks == Duration_from_secs(MaxSecs) + MillisPerSec * TicksPerMilli - 1

TimeoutIdle == tmo = Unset /\ raw = None /\ dur = None

T_never ==
    /\ tmo = Unset
    /\ tmo' = never
    /\ UNCHANGED <<raw, dur, mvars, ivars, avars>>

T_none ==
    /\ tmo = Unset
    /\ tmo' = none
    /\ UNCHANGED <<raw, dur, mvars, ivars, avars>>

T_from_secs ==
    /\ tmo = Unset
    /\ \E secs \in 0..MaxSecs : tmo' = from_secs(secs)
    /\ UNCHANGED <<raw, dur, mvars, ivars, avars>>

T_from_millis ==
    /\ tmo = Unset
    /\ \E millis \in 0..U64Max : tmo' = from_millis(millis)
    /\ UNCHANGED <<raw, dur, mvars, ivars, avars>>

\* Timeout::Duration(d) built from any std Duration, sub-millisecond ones included.
T_Duration ==
    /\ tmo = Unset
    /\ \E d \in 0..MaxTicks : tmo' = Duration(d)
    /\ UNCHANGED <<raw, dur, mvars, ivars, avars>>

T_as_raw_timeout ==
    /\ tmo # Unset
    /\ raw = None
    /\ raw' = Some(as_raw_timeout(tmo))
    /\ UNCHANGED <<tmo, dur, mvars, ivars, avars>>

T_as_duration ==
    /\ tmo # Unset
    /\ dur = None
    /\ dur' = Some(as_duration(tmo))
    /\ UNCHANGED <<tmo, raw, mvars, ivars, avars>>

(***************************************************************************)
(* MessageSet<M, D>.                                                       *)
(***************************************************************************)
Metas == {"m1", "m2", "m3"}
Datas == {"d1", "d2", "d3"}

Meta(m) == [tag |-> "Meta", m |-> m]
Data(d) == [tag |-> "Data", d |-> d]
MetaData(m, d) == [tag |-> "MetaData", d |-> d, m |-> m]
Moved == [tag |-> "Moved"]

MessageSet(M, D) ==
    {Meta(m) : m \in M} \cup {Data(d) : d \in D}
        \cup {MetaData(m, d) : m \in M, d \in D}

\* A faulty into_meta: the metadata of a MetaData message is lost.
into_meta_meta_only(self) ==
    CASE self.tag = "Meta" -> Some(self.m)
      [] self.tag = "Data" -> None
      [] self.tag = "MetaData" -> None

into_meta(self) ==
    CASE self.tag = "Meta" -> Some(self.m)
      [] self.tag = "Data" -> None
      [] self.tag = "MetaData" -> Some(self.m)

into_data(self) ==
    CASE self.tag = "Meta" -> None
      [] self.tag = "Data" -> Some(self.d)
      [] self.tag = "MetaData" -> Some(self.d)

has_meta(self) == self.tag = "Meta" \/ self.tag = "MetaData"

has_data(self) == self.tag = "Data" \/ self.tag = "MetaData"

meta(self) ==
    CASE self.tag = "Meta" -> Some(self.m)
      [] self.tag = "Data" -> None
      [] self.tag = "MetaData" -> Some(self.m)

data(self) ==
    CASE self.tag = "Meta" -> None
      [] self.tag = "Data" -> Some(self.d)
      [] self.tag = "MetaData" -> Some(self.d)

MessageSetIdle == built = Unset /\ ms = Unset /\ res = Unset

M_Build ==
    /\ built = Unset
    /\ \E x \in MessageSet(Metas, Datas) : built' = x /\ ms' = x
    /\ UNCHANGED <<res, tvars, ivars, avars>>

M_has_meta ==
    /\ ms \in MessageSet(Metas, Datas)
    /\ res' = [op |-> "has_meta", b |-> has_meta(ms)]
    /\ UNCHANGED <<built, ms, tvars, ivars, avars>>

M_has_data ==
    /\ ms \in MessageSet(Metas, Datas)
    /\ res' = [op |-> "has_data", b |-> has_data(ms)]
    /\ UNCHANGED <<built, ms, tvars, ivars, avars>>

M_meta ==
    /\ ms \in MessageSet(Metas, Datas)
    /\ res' = [op |-> "meta", o |-> meta(ms)]
    /\ UNCHANGED <<built, ms, tvars, ivars, avars>>

M_data ==
    /\ ms \in MessageSet(Metas, Datas)
    /\ res' = [op |-> "data", o |-> data(ms)]
    /\ UNCHANGED <<built, ms, tvars, ivars, avars>>

\* into_meta and into_data take self by value: the MessageSet is gone after.
M_into_meta ==
    /\ ms \in MessageSet(Metas, Datas)
    /\ res' = [op |-> "into_meta", o |-> into_meta(ms)]
    /\ ms' = Moved
    /\ UNCHANGED <<built, tvars, ivars, avars>>

M_into_data ==
    /\ ms \in MessageSet(Metas, Datas)
    /\ res' = [op |-> "into_data", o |-> into_data(ms)]
    /\ ms' = Moved
    /\ UNCHANGED <<built, tvars, ivars, avars>>

(***************************************************************************)
(* The consumer contracts and the iteration / streaming adapters.  The     *)
(* backend behind recv_timeout is arbitrary: each call is answered by any  *)
(* RawResult<Option<(Offset, MessageSet)>>.                                *)
(***************************************************************************)
MaxPolls == 3

Offsets == {10, 11}
Errors == {"e1", "e2"}
Messages ==
    {<<10, Meta("m1")>>, <<10, Data("d1")>>, <<11, Data("d2")>>,
     <<11, MetaData("m1", "d1")>>}
Answers ==
    {Ok(None)} \cup {Ok(Some(m)) : m \in Messages} \cup {Err(e) : e \in Errors}
Scripts(n) == [1..n -> Answers]

TimeoutArgs == {Never, from_millis(1)}
Overrides == {None, Some(NoWait)}

\* AsConsumer::default_timeout: Never unless the backend overrides it.
default_timeout(ov) == IF ov = None THEN Never ELSE ov.v

\* AsAsyncConsumer::default_timeout has no default body: the backend declares it
\* (a backend without an override of its own is taken to declare Never).
async_default_timeout(ov) == IF ov = None THEN Never ELSE ov.v

\* One recv_timeout served by the consumer: the timeout it was given, its answer.
Poll(timeout, answer) == [timeout |-> timeout, answer |-> answer]

MessageSetsIter(timeout, ctor) ==
    [timeout |-> timeout, ctor |-> ctor, kind |-> "iter"]

iter_with_timeout(timeout) == MessageSetsIter(timeout, "iter_with_timeout")

iter(ov) == MessageSetsIter(default_timeout(ov), "iter")

iter_data_only(timeout) ==
    [timeout |-> timeout, ctor |-> "iter_data_only", kind |-> "data_only",
     inner |-> iter_with_timeout(timeout)]

stream_with_timeout(timeout) ==
    [timeout |-> timeout, ctor |-> "stream_with_timeout", kind |-> "stream"]

stream(ov) ==
    [timeout |-> async_default_timeout(ov), ctor |-> "stream", kind |-> "stream"]

\* AsConsumer::recv over the answers the backend gives: the polls made, the value.
recv(ov, script) ==
    [polls |-> <<Poll(default_timeout(ov), script[1])>>, item |-> script[1]]

\* A faulty next: the poll is made with Never, not with the iterator's timeout.
MessageSetsIter_next_never(self, script) ==
    [polls |-> <<Poll(Never, script[1])>>, item |-> transpose(script[1])]

\* MessageSetsIter::next.
MessageSetsIter_next(self, script) ==
    [polls |-> <<Poll(self.timeout, script[1])>>, item |-> transpose(script[1])]

\* A faulty closure: only the Data variant counts as carrying data.
data_only_closure_data_variant(m) ==
    IF m[2].tag = "Data" THEN Some(<<m[1], m[2].d>>) ELSE None

\* The closure of iter_data_only: |m| m.1.into_data().map(|data| (m.0, data)).
data_only_closure(m) ==
    LET d == into_data(m[2])
    IN IF d = None THEN None ELSE Some(<<m[1], d.v>>)

\* itertools FilterMapOk::next over the inner MessageSetsIter: an Ok the closure
\* maps to None is skipped and the inner iterator is asked again.
RECURSIVE filter_map_ok_next(_, _, _)
filter_map_ok_next(self, script, polled) ==
    IF script = <<>> THEN [polls |-> polled, item |-> Unset]
    ELSE
        LET r == MessageSetsIter_next(self.inner, script)
            now == polled \o r.polls
        IN CASE r.item = None -> [polls |-> now, item |-> None]
             [] r.item # None /\ r.item.v.tag = "Err" ->
                    [polls |-> now, item |-> Some(Err(r.item.v.e))]
             [] OTHER ->
                    LET w == data_only_closure(r.item.v.v)
                    IN IF w = None
                       THEN filter_map_ok_next(self, Tail(script), now)
                       ELSE [polls |-> now, item |-> Some(Ok(w.v))]

\* A faulty closure: an error ends the stream instead of being yielded.
stream_closure_ending_on_error(self, script) ==
    [polls |-> <<Poll(self.timeout, script[1])>>,
     item |-> IF script[1].tag = "Ok" /\ script[1].v # None
              THEN Some(Ok(script[1].v.v))
              ELSE None]

\* The closure stream_with_timeout hands to futures::stream::unfold.
stream_closure(self, script) ==
    LET weather == transpose(script[1])
    IN [polls |-> <<Poll(self.timeout, script[1])>>,
        item |-> IF weather = None THEN None ELSE Some(weather.v)]

Returned(op, r) ==
    [op |-> op, item |-> r.item, first |-> Len(recvLog) + 1,
     last |-> Len(recvLog) + Len(r.polls)]

Room == MaxPolls - Len(recvLog)

Build(a) ==
    /\ adapter = Unset
    /\ adapter' = a
    /\ streamState' = IF a.kind = "stream" THEN "active" ELSE streamState
    /\ UNCHANGED <<override, recvLog, out, tvars, mvars, avars>>

C_iter_with_timeout == \E t \in TimeoutArgs : Build(iter_with_timeout(t))

C_iter == Build(iter(override))

C_iter_data_only == \E t \in TimeoutArgs : Build(iter_data_only(t))

C_stream_with_timeout == \E t \in TimeoutArgs : Build(stream_with_timeout(t))

C_stream == Build(stream(override))

Complete(op, r) ==
    /\ recvLog' = recvLog \o r.polls
    /\ out' = Append(out, Returned(op, r))

C_recv ==
    /\ Room >= 1
    /\ \E script \in Scripts(1) : Complete("recv", recv(override, script))
    /\ UNCHANGED <<override, adapter, streamState, tvars, mvars, avars>>

I_next ==
    /\ adapter # Unset /\ adapter.kind = "iter"
    /\ Room >= 1
    /\ \E script \in Scripts(1) :
           Complete("next", MessageSetsIter_next(adapter, script))
    /\ UNCHANGED <<override, adapter, streamState, tvars, mvars, avars>>

\* One next() of the data-only iterator: the answers it consumes are exactly the
\* ones up to the first it does not skip.
D_next ==
    /\ adapter # Unset /\ adapter.kind = "data_only"
    /\ \E n \in 1..Room : \E script \in Scripts(n) :
           LET r == filter_map_ok_next(adapter, script, <<>>)
           IN /\ r.item # Unset
              /\ Len(r.polls) = n
              /\ Complete("next", r)
    /\ UNCHANGED <<override, adapter, streamState, tvars, mvars, avars>>

\* Unfold::poll_next: a closure result of None completes the stream, and a
\* completed Unfold must not be polled again.
S_poll_next ==
    /\ adapter # Unset /\ adapter.kind = "stream"
    /\ streamState = "active"
    /\ Room >= 1
    /\ \E script \in Scripts(1) :
           LET r == stream_closure(adapter, script)
           IN /\ Complete("poll_next", r)
              /\ streamState' = IF r.item = None THEN "done" ELSE "active"
    /\ UNCHANGED <<override, adapter, tvars, mvars, avars>>

S_drop ==
    /\ adapter # Unset /\ adapter.kind = "stream"
    /\ streamState = "active"
    /\ streamState' = "dropped"
    /\ UNCHANGED <<override, adapter, recvLog, out, tvars, mvars, avars>>

IterIdle ==
    /\ override = Unset /\ adapter = Unset /\ recvLog = <<>> /\ out = <<>>
    /\ streamState = "unbuilt"

(***************************************************************************)
(* The bridging blanket implementations.  A backend implements one         *)
(* contract and opts into a marker; calls issued on the derived contract   *)
(* are answered by the implemented one, whose outcome is arbitrary.        *)
(***************************************************************************)
MaxCalls == 2

Unit == [tag |-> "Unit"]
NoImpl == [tag |-> "NoImpl"]
TopicLists == {<<"topic_a">>, <<"topic_a", "topic_b">>}
VGroupIds == {3}
SeekOffsets == {10, 15}
SeekArgs(topic, vg_id, offset) ==
    [topic |-> topic, vg_id |-> vg_id, offset |-> offset]
Assignment(vgroup_id, offset, begin, end) ==
    [offset |-> offset, vgroup_id |-> vgroup_id, begin |-> begin, end |-> end]

UnitResults == {Ok(Unit)} \cup {Err(e) : e \in Errors}
MetaResults == {Ok([bytes |-> "meta"])} \cup {Err(e) : e \in Errors}
AssignmentResults ==
    {None, Some(<<[topic |-> "topic_a", list |-> <<Assignment(3, 10, 0, 10)>>]>>)}

Call(op, args) == [op |-> op, args |-> args]

\* crate::block_in_place_or_global: runs the future to completion on the
\* current thread, once, and returns its output.
block_in_place_or_global(fut, produced) ==
    [reached |-> <<fut>>, ret |-> produced]

\* impl<T> IsMeta for T where T: IsAsyncMeta + SyncOnAsync.
IsMeta_as_raw_meta(produced) ==
    block_in_place_or_global(Call("as_raw_meta", Unit), produced)

IsMeta_as_json_meta(produced) ==
    block_in_place_or_global(Call("as_json_meta", Unit), produced)

\* impl<C> AsConsumer for C where C: AsAsyncConsumer + SyncOnAsync.
AsConsumer_subscribe(topics, produced) ==
    block_in_place_or_global(Call("subscribe", [topics |-> topics]), produced)

\* A faulty bridge: the caller's timeout is replaced by Never.
AsConsumer_recv_timeout_never(timeout, produced) ==
    block_in_place_or_global(Call("recv_timeout", [timeout |-> Never]), produced)

AsConsumer_recv_timeout(timeout, produced) ==
    block_in_place_or_global(Call("recv_timeout", [timeout |-> timeout]), produced)

AsConsumer_commit(offset, produced) ==
    block_in_place_or_global(Call("commit", [offset |-> offset]), produced)

AsConsumer_assignments(produced) ==
    block_in_place_or_global(Call("assignments", Unit), produced)

AsConsumer_offset_seek(topic, vg_id, offset, produced) ==
    block_in_place_or_global(
        Call("offset_seek", SeekArgs(topic, vg_id, offset)), produced)

\* impl<T> IsAsyncMeta for T where T: IsMeta + AsyncOnSync: the async body is
\* the blocking call itself.
IsAsyncMeta_as_raw_meta(produced) ==
    [reached |-> <<Call("as_raw_meta", Unit)>>, ret |-> produced]

IsAsyncMeta_as_json_meta(produced) ==
    [reached |-> <<Call("as_json_meta", Unit)>>, ret |-> produced]

\* The operations of the suspendable contract, and those of them an AsyncOnSync
\* type gets derived: the blanket impl of AsAsyncConsumer is commented out.
SuspendableOps ==
    {"subscribe", "recv_timeout", "commit", "assignments", "topic_assignment",
     "offset_seek", "as_raw_meta", "as_json_meta"}
AsyncOnSyncDerived == {"as_raw_meta", "as_json_meta"}

\* A call on the derived contract: what was asked and what came back go to
\* callerLog; what reached the implemented contract, and what that produced, go
\* to backendLog.
Bridge(op, args, produced, r) ==
    /\ Len(callerLog) < MaxCalls
    /\ callerLog' = Append(callerLog, [op |-> op, args |-> args, returned |-> r.ret])
    /\ backendLog' =
           backendLog \o
               [i \in 1..Len(r.reached) |->
                   [op |-> r.reached[i].op, args |-> r.reached[i].args,
                    produced |-> produced]]
    /\ UNCHANGED <<marker, tvars, mvars, ivars>>

A_subscribe ==
    /\ marker = "SyncOnAsync"
    /\ \E topics \in TopicLists, produced \in UnitResults :
           Bridge("subscribe", [topics |-> topics], produced,
                  AsConsumer_subscribe(topics, produced))

A_recv_timeout ==
    /\ marker = "SyncOnAsync"
    /\ \E timeout \in TimeoutArgs, produced \in Answers :
           Bridge("recv_timeout", [timeout |-> timeout], produced,
                  AsConsumer_recv_timeout(timeout, produced))

A_commit ==
    /\ marker = "SyncOnAsync"
    /\ \E offset \in Offsets, produced \in UnitResults :
           Bridge("commit", [offset |-> offset], produced,
                  AsConsumer_commit(offset, produced))

A_assignments ==
    /\ marker = "SyncOnAsync"
    /\ \E produced \in AssignmentResults :
           Bridge("assignments", Unit, produced, AsConsumer_assignments(produced))

A_offset_seek ==
    /\ marker = "SyncOnAsync"
    /\ \E vg_id \in VGroupIds, offset \in SeekOffsets, produced \in UnitResults :
           Bridge("offset_seek", SeekArgs("topic_a", vg_id, offset), produced,
                  AsConsumer_offset_seek("topic_a", vg_id, offset, produced))

A_as_raw_meta ==
    /\ marker = "SyncOnAsync"
    /\ \E produced \in MetaResults :
           Bridge("as_raw_meta", Unit, produced, IsMeta_as_raw_meta(produced))

A_as_json_meta ==
    /\ marker = "SyncOnAsync"
    /\ \E produced \in MetaResults :
           Bridge("as_json_meta", Unit, produced, IsMeta_as_json_meta(produced))

B_as_raw_meta ==
    /\ marker = "AsyncOnSync"
    /\ \E produced \in MetaResults :
           Bridge("as_raw_meta", Unit, produced, IsAsyncMeta_as_raw_meta(produced))

B_as_json_meta ==
    /\ marker = "AsyncOnSync"
    /\ \E produced \in MetaResults :
           Bridge("as_json_meta", Unit, produced, IsAsyncMeta_as_json_meta(produced))

\* A suspendable operation with no derived implementation: the request has
\* nothing to resolve to and never reaches the blocking contract.
B_underived ==
    /\ marker = "AsyncOnSync"
    /\ \E op \in SuspendableOps \ AsyncOnSyncDerived :
           Bridge(op, Unit, NoImpl, [reached |-> <<>>, ret |-> NoImpl])

AdapterIdle == marker = Unset /\ backendLog = <<>> /\ callerLog = <<>>

InitTimeout == TimeoutIdle /\ MessageSetIdle /\ IterIdle /\ AdapterIdle

NextTimeout ==
    \/ T_never
    \/ T_none
    \/ T_from_secs
    \/ T_from_millis
    \/ T_Duration
    \/ T_as_raw_timeout
    \/ T_as_duration

SpecTimeout == InitTimeout /\ [][NextTimeout]_vars

InitMessageSet == TimeoutIdle /\ MessageSetIdle /\ IterIdle /\ AdapterIdle

NextMessageSet ==
    \/ M_Build
    \/ M_has_meta
    \/ M_has_data
    \/ M_meta
    \/ M_data
    \/ M_into_meta
    \/ M_into_data

SpecMessageSet == InitMessageSet /\ [][NextMessageSet]_vars

Init ==
    /\ TimeoutIdle /\ MessageSetIdle /\ AdapterIdle
    /\ override \in Overrides
    /\ adapter = Unset /\ recvLog = <<>> /\ out = <<>> /\ streamState = "unbuilt"

Next ==
    \/ C_iter_with_timeout
    \/ C_iter
    \/ C_iter_data_only
    \/ C_stream_with_timeout
    \/ C_stream
    \/ C_recv
    \/ I_next
    \/ D_next
    \/ S_poll_next
    \/ S_drop

Spec == Init /\ [][Next]_vars

InitAdapter ==
    /\ TimeoutIdle /\ MessageSetIdle /\ IterIdle
    /\ marker \in {"SyncOnAsync", "AsyncOnSync"}
    /\ backendLog = <<>> /\ callerLog = <<>>

NextAdapter ==
    \/ A_subscribe
    \/ A_recv_timeout
    \/ A_commit
    \/ A_assignments
    \/ A_offset_seek
    \/ A_as_raw_meta
    \/ A_as_json_meta
    \/ B_as_raw_meta
    \/ B_as_json_meta
    \/ B_underived

SpecAdapter == InitAdapter /\ [][NextAdapter]_vars

(***************************************************************************)
(* Properties.                                                             *)
(***************************************************************************)
AdapterOps == {"next", "poll_next"}
Min(a, b) == IF a < b THEN a ELSE b
Last(q) == q[Len(q)]

\* C1: the pull iterator never reports end-of-sequence: whatever the backend
\* answers, Ok(None) included, next() on a MessageSetsIter yields an element.
C1_IterNeverEndsOnNoMessage ==
    \A i \in DOMAIN out :
        (adapter # Unset /\ adapter.kind = "iter" /\ out[i].op = "next")
            => out[i].item # None

\* C2: the push stream never reaches its completed state on its own, whatever
\* the backend answers; it stops only by being dropped.
C2_StreamNeverCompletes == streamState # "done"

\* C3: in the iterator, the data-only iterator and the stream, a poll whose
\* recv_timeout fails with e is the last poll of exactly one yielded element,
\* that element is Err(e), every Err element carries the error of its own
\* poll, and the error does not end the sequence: the stream is not completed
\* by it and, unless the caller dropped it, a further next / poll_next can be
\* made.
C3_ErrorsSurfaceAndDoNotTerminate ==
    /\ \A i \in DOMAIN out :
           out[i].op \in AdapterOps =>
               /\ \A k \in out[i].first..out[i].last :
                      recvLog[k].answer.tag = "Err" =>
                          /\ k = out[i].last
                          /\ out[i].item = Some(Err(recvLog[k].answer.e))
               /\ (out[i].item # None /\ out[i].item.v.tag = "Err") =>
                      recvLog[out[i].last].answer = Err(out[i].item.v.e)
    /\ (/\ out # <<>>
        /\ Last(out).op \in AdapterOps
        /\ Last(out).item # None
        /\ Last(out).item.v.tag = "Err") =>
           /\ streamState # "done"
           /\ (Room >= 1 /\ streamState # "dropped") =>
                  ENABLED (I_next \/ D_next \/ S_poll_next)

\* C3 witness: a stream yielded Err(e1) and, at a later poll, a message.
C3_Witness ==
    /\ adapter # Unset /\ adapter.kind = "stream"
    /\ \E i, j \in DOMAIN out :
           /\ i < j
           /\ out[i].op = "poll_next" /\ out[i].item = Some(Err("e1"))
           /\ out[j].op = "poll_next" /\ out[j].item # None
           /\ out[j].item.v.tag = "Ok"

\* The polls made by the next() calls, in order, and the elements they yielded.
RECURSIVE PollsOfNext(_)
PollsOfNext(i) ==
    IF i = 0 THEN <<>>
    ELSE PollsOfNext(i - 1) \o
             (IF out[i].op = "next"
              THEN SubSeq(recvLog, out[i].first, out[i].last)
              ELSE <<>>)

RECURSIVE YieldedByNext(_)
YieldedByNext(i) ==
    IF i = 0 THEN <<>>
    ELSE YieldedByNext(i - 1) \o
             (IF out[i].op = "next" /\ out[i].item # None
              THEN <<out[i].item.v>>
              ELSE <<>>)

\* What the data-only sequence is to contain for a sequence of polls: an error
\* as it is, a message carrying data as (offset, data), nothing otherwise.
RECURSIVE DataCarrying(_)
DataCarrying(polls) ==
    IF polls = <<>> THEN <<>>
    ELSE
        LET a == Head(polls).answer
            here ==
                CASE a.tag = "Err" -> <<Err(a.e)>>
                  [] a.tag = "Ok" /\ a.v = None -> <<>>
                  [] OTHER ->
                        IF a.v.v[2].tag \in {"Data", "MetaData"}
                        THEN <<Ok(<<a.v.v[1], a.v.v[2].d>>)>>
                        ELSE <<>>
        IN here \o DataCarrying(Tail(polls))

\* C4: iter_data_only(timeout) polls with the given timeout and yields, in
\* receive order, exactly the data-carrying messages as Ok((offset, data)) and
\* the poll errors as Err; a Meta message is dropped without ending the
\* sequence (an end is reported only at a no-message answer).
C4_DataOnlySubsequence ==
    (adapter # Unset /\ adapter.kind = "data_only") =>
        /\ YieldedByNext(Len(out)) = DataCarrying(PollsOfNext(Len(out)))
        /\ \A i \in DOMAIN out :
               out[i].op = "next" =>
                   /\ \A k \in out[i].first..out[i].last :
                          recvLog[k].timeout = adapter.timeout
                   /\ out[i].item = None =>
                          recvLog[out[i].last].answer = Ok(None)

\* C4 witness: one next() skipped a Meta message and yielded the data of the
\* MetaData message that followed, after an earlier next() passed an error on.
C4_Witness ==
    /\ adapter # Unset /\ adapter.kind = "data_only"
    /\ \E i, j \in DOMAIN out :
           /\ i < j
           /\ out[i].op = "next" /\ out[i].item = Some(Err("e2"))
           /\ out[j].op = "next" /\ out[j].first < out[j].last
           /\ recvLog[out[j].first].answer = Ok(Some(<<10, Meta("m1")>>))
           /\ recvLog[out[j].last].answer = Ok(Some(<<11, MetaData("m1", "d1")>>))
           /\ out[j].item = Some(Ok(<<11, "d1">>))

\* C5: for a SyncOnAsync type every blocking call reaches the suspendable
\* contract exactly once, as the same operation with the same arguments, in the
\* order issued, and returns exactly what the suspendable operation produced.
C5_SyncOnAsyncTransparent ==
    marker = "SyncOnAsync" =>
        /\ Len(backendLog) = Len(callerLog)
        /\ \A i \in DOMAIN callerLog :
               /\ backendLog[i].op = callerLog[i].op
               /\ backendLog[i].args = callerLog[i].args
               /\ callerLog[i].returned = backendLog[i].produced

\* C5 witness: a blocking recv_timeout that returned the backend's error,
\* followed by a blocking commit.
C5_Witness ==
    /\ marker = "SyncOnAsync"
    /\ Len(callerLog) = 2
    /\ callerLog[1].op = "recv_timeout"
    /\ callerLog[1].args.timeout = from_millis(1)
    /\ callerLog[1].returned = Err("e1")
    /\ callerLog[2].op = "commit"
    /\ callerLog[2].returned = Ok(Unit)

\* C6: for an AsyncOnSync type every suspendable operation is derived: each
\* one requested reaches the blocking contract exactly once, as the same
\* operation, in the order issued, and completes with its result unchanged.
C6_AsyncOnSyncTransparent ==
    marker = "AsyncOnSync" =>
        /\ Len(backendLog) = Len(callerLog)
        /\ \A i \in DOMAIN callerLog :
               /\ callerLog[i].op \in SuspendableOps
               /\ i \in DOMAIN backendLog
               /\ backendLog[i].op = callerLog[i].op
               /\ backendLog[i].args = callerLog[i].args
               /\ callerLog[i].returned = backendLog[i].produced

\* C7: as_raw_timeout(t) is -1 if and only if t is Never, 0 if and only if t
\* is None, and the millisecond count of d for Duration(d).
C7_RawTimeoutIff ==
    raw # None =>
        /\ raw.v = 0 - 1 <=> tmo = Never
        /\ raw.v = 0 <=> tmo = NoWait
        /\ tmo.tag = "Duration" => raw.v = Duration_as_millis(tmo.d)

\* C8: for Duration(d), as_raw_timeout saturates: the result is the millisecond
\* count capped at the largest raw integer, hence never negative.
C8_RawTimeoutSaturates ==
    (raw # None /\ tmo.tag = "Duration") =>
        /\ raw.v = Min(Duration_as_millis(tmo.d), I64Max)
        /\ raw.v >= 0

\* C9: (has_meta, has_data) is (true, false) for Meta, (false, true) for Data,
\* (true, true) for MetaData and never (false, false); into_meta and meta
\* return a value exactly when has_meta holds, into_data and data exactly when
\* has_data holds, and the value is the one the MessageSet was built with.
C9_MessageSetConsistent ==
    built # Unset =>
        /\ built.tag = "Meta" => (has_meta(built) /\ ~has_data(built))
        /\ built.tag = "Data" => (~has_meta(built) /\ has_data(built))
        /\ built.tag = "MetaData" => (has_meta(built) /\ has_data(built))
        /\ has_meta(built) \/ has_data(built)
        /\ res # Unset =>
               /\ res.op = "has_meta" => (res.b <=> built.tag \in {"Meta", "MetaData"})
               /\ res.op = "has_data" => (res.b <=> built.tag \in {"Data", "MetaData"})
               /\ res.op \in {"into_meta", "meta"} =>
                      /\ res.o # None <=> has_meta(built)
                      /\ res.o # None => res.o.v = built.m
               /\ res.op \in {"into_data", "data"} =>
                      /\ res.o # None <=> has_data(built)
                      /\ res.o # None => res.o.v = built.d

\* C9 witness: into_meta on MetaData("m2", "d3") returned Some("m2").
C9_Witness ==
    /\ built = MetaData("m2", "d3")
    /\ ms = Moved
    /\ res = [op |-> "into_meta", o |-> Some("m2")]

\* C10: every next() of a MessageSetsIter makes exactly one recv_timeout, with
\* the timeout fixed at construction (for iter(): the override if the backend
\* has one, else Never); recv() makes one recv_timeout with that same default
\* and returns its answer; and next() keeps no state: what it yields is decided
\* by the answer of its own poll alone, and after an error or an end another
\* next() can be made.
C10_OnePollPerNextFixedTimeout ==
    /\ (adapter # Unset /\ adapter.ctor = "iter") =>
           adapter.timeout = (IF override = None THEN Never ELSE override.v)
    /\ \A i \in DOMAIN out :
           /\ out[i].op = "recv" =>
                  /\ out[i].first = out[i].last
                  /\ recvLog[out[i].first].timeout =
                         (IF override = None THEN Never ELSE override.v)
                  /\ out[i].item = recvLog[out[i].first].answer
           /\ (adapter # Unset /\ adapter.kind = "iter" /\ out[i].op = "next") =>
                  /\ out[i].first = out[i].last
                  /\ recvLog[out[i].first].timeout = adapter.timeout
                  /\ out[i].item = None <=> recvLog[out[i].first].answer = Ok(None)
                  /\ out[i].item # None =>
                         recvLog[out[i].first].answer =
                             (IF out[i].item.v.tag = "Ok"
                              THEN Ok(Some(out[i].item.v.v))
                              ELSE out[i].item.v)
    /\ (adapter # Unset /\ adapter.kind = "iter" /\ Room >= 1) => ENABLED I_next

\* C10 witness: an iterator built by iter() over a backend that overrides the
\* default timeout reported an end and then, at the next call, a message.
C10_Witness ==
    /\ adapter # Unset /\ adapter.ctor = "iter" /\ override = Some(NoWait)
    /\ \E i, j \in DOMAIN out :
           /\ i < j
           /\ out[i].op = "next" /\ out[i].item = None
           /\ out[j].op = "next" /\ out[j].item # None
           /\ out[j].item.v.tag = "Ok"

=============================================================================
